---- MODULE Spec2Model ----
(***************************************************************************)
(* douban-api-rs: the request operations of src/api.rs (Douban) and        *)
(* src/bookapi.rs (DoubanBookApi) over the three process-wide result       *)
(* caches MOVIE_CACHE, PHOTO_CACHE and BOOK_CACHE.                         *)
(*                                                                         *)
(* Request handlers run on several worker threads and share the caches.   *)
(* A step of a handler ends with one access to a cache (get or insert) or  *)
(* with its return; what a handler does between two cache accesses (the    *)
(* upstream request, the extraction) touches nothing shared and is part of *)
(* the step that ends with the next access.                                *)
(***************************************************************************)
EXTENDS Integers, Sequences, FiniteSets, TLC

\* ------------------------------------------------------------------ bounds

\* Requests accepted in one run.
MaxCalls == 2
\* Versions of the upstream pages (their content changes while the server runs).
MaxVer == 2
\* Capacity of each cache, scaled down from CACHE_SIZE = 100
\* (api.rs:22, bookapi.rs:19) so that a run can fill a cache.
CACHE_SIZE == 2
\* time_to_live of each cache in clock ticks, scaled down from
\* Duration::from_secs(10 * 60) (api.rs:12, api.rs:15, bookapi.rs:12).
TTL == 2

\* The longest list of search results, and the largest limit of a search.
MaxResults == 4
MaxLimit == 3
\* The most lines of an info text.
MaxLines == 3
\* The most search results of a search_full.
MaxItems == 3
\* The longest rating text.
MaxRating == 3
\* The most tokens of a subjects string.
MaxTokens == 4
\* The longest size label of a photo.
MaxLabel == 4
\* The longest celebrity list over all role types, and the longest over two.
MaxShort == 3
MaxLong == 17
\* The longest title of a movie page.
MaxTitle == 7
\* The most lines of the info block of a book page.
MaxInfo == 4

\* Two worker threads serve requests concurrently.
Procs == {1, 2}
Vers == 1..MaxVer

\* ------------------------------------------------------------ request data

Sids == {"1", "2"}
ImageSizes == {"", "m"}
BookIds == {"1", "2"}
Isbns == {"9781", "9782"}
Qs == {"", "q"}

CachedOps == {"movie", "photo", "book_id", "book_isbn"}
BookOps == {"book_id", "book_isbn"}
SearchOps == {"search", "book_search"}
PlainOps == {"celebrities", "celebrity"}
Ops == CachedOps \cup SearchOps \cup PlainOps

\* The arguments a request of operation o may carry.
Args(o) ==
    CASE o = "movie" -> [id : Sids, size : ImageSizes]
      [] o = "photo" -> [id : Sids, size : {""}]
      [] o = "book_id" -> [id : BookIds, size : {""}]
      [] o = "book_isbn" -> [id : Isbns, size : {""}]
      [] o \in SearchOps -> [id : Qs, size : {""}]
      [] OTHER -> [id : {"1"}, size : {""}]

\* The upstream catalogue: the subject a book ISBN redirects to, and the
\* ISBN line a book page of a subject shows.
IdOfIsbn(i) == IF i = "9781" THEN "1" ELSE "2"
IsbnOfId(b) == IF b = "1" THEN "9781" ELSE "9782"

\* ----------------------------------------------------------------- records

NoRec == [kind |-> "none", id |-> "", variant |-> "", ver |-> 0, isbn |-> ""]
EmptyList == [kind |-> "list", id |-> "", variant |-> "empty", ver |-> 0, isbn |-> ""]

\* get_img_by_size: only "m" and "l" change the poster URL.
ImgVariant(size) == IF size = "m" \/ size = "l" THEN size ELSE "s_ratio_poster"

\* What a request ends with: Ok(record), Err(error) or a panic.  "at" is the
\* place in the source that produced it, "miss" the element whose lookup
\* found nothing when that is what ended the request.
NoRes == [tag |-> "none", val |-> NoRec, at |-> "", miss |-> ""]
Ok(v, via) == [tag |-> "ok", val |-> v, at |-> via, miss |-> ""]
Err(site) == [tag |-> "err", val |-> NoRec, at |-> site, miss |-> ""]
Panic(site) == [tag |-> "panic", val |-> NoRec, at |-> site, miss |-> ""]
PanicOn(site, e) == [tag |-> "panic", val |-> NoRec, at |-> site, miss |-> e]

\* ------------------------------------------------------------------ caches

Caches == {"MOVIE_CACHE", "PHOTO_CACHE", "BOOK_CACHE"}

CacheOf(o) ==
    CASE o = "movie" -> "MOVIE_CACHE"
      [] o = "photo" -> "PHOTO_CACHE"
      [] OTHER -> "BOOK_CACHE"

\* A movie key without the image size.
CacheKeyAlt(o, a) == IF o = "movie" THEN "movie_" \o a.id ELSE a.id

\* The key an operation looks up: format!("movie_{}_{}", sid, image_size)
\* for get_movie_info, the bare identifier for the others.
CacheKey(o, a) ==
    IF o = "movie" THEN "movie_" \o a.id \o "_" \o a.size ELSE a.id

\* An entry is live until its age reaches the time to live.
Live(e) == e.age < TTL

\* A get that takes an expired entry for a present one.
HasLiveAlt(cm, k) == k \in DOMAIN cm

\* Cache::get on the map cm of one cache: a present, unexpired entry.
HasLive(cm, k) == k \in DOMAIN cm /\ Live(cm[k])

\* An insert that keeps the value a present key has.
StoreAlt(cm, k, e) ==
    [x \in DOMAIN cm \cup {k} |-> IF x \in DOMAIN cm THEN cm[x] ELSE e]

Store(cm, k, e) == [x \in DOMAIN cm \cup {k} |-> IF x = k THEN e ELSE cm[x]]
Drop(cm, k) == [x \in DOMAIN cm \ {k} |-> cm[x]]

\* An insert into a cache without a capacity.
InsertedAlt(cm, k, e) == {Store(cm, k, e)}

\* Cache::insert on a cache built with CacheBuilder::new(CACHE_SIZE): the
\* maps it may leave.  A key already held is replaced; a new key is stored
\* while there is room; at capacity the admission/eviction policy either
\* drops one held entry for the new one or does not retain the new one.
\* The insert and the eviction it causes are one step.
Inserted(cm, k, e) ==
    IF k \in DOMAIN cm \/ Cardinality(DOMAIN cm) < CACHE_SIZE
    THEN {Store(cm, k, e)}
    ELSE {cm} \cup {Store(Drop(cm, v), k, e) : v \in DOMAIN cm}

\* How an insert of k that turned cm into cm2 went.
InsertOutcome(cm, cm2, k) ==
    IF k \in DOMAIN cm THEN "replaced"
    ELSE IF k \notin DOMAIN cm2 THEN "rejected"
    ELSE IF Cardinality(DOMAIN cm2) > Cardinality(DOMAIN cm) THEN "stored"
    ELSE "evicted"

\* ---------------------------------------------------------------- documents

\* A fetched page is the set of the elements it holds, among those the
\* extraction of the operation looks for.  Elements below the root
\* container are found only when the root is.
PageElems(o) ==
    CASE o = "movie" ->
           {"#content", "h1", "a.nbgnbg>img@src", "li.celebrity",
            "a.name@href", "div.avatar@style"}
      [] o = "photo" -> {"li", "@data-id", "div.prop"}
      [] o \in BookOps ->
           {"#wrapper", "a.nbg@href", "a.nbg>img@src", "#info", "ISBN"}
      [] o = "search" -> {".result", "a@onclick", "a.nbg>img@src"}
      [] o = "book_search" -> {".result", "a@onclick", ".pic img@src"}
      [] o = "celebrities" ->
           {"#content", "li.celebrity", "a.name@href", "div.avatar@style"}
      [] OTHER -> {"#content", ".nbg img@src", "h1"}

\* The pages of the model: complete, with one element missing, or blank.
\* For a book requested by id there is also the complete page that the
\* site serves after a redirect to another subject ("moved").
Docs(o) ==
    {PageElems(o)} \cup {PageElems(o) \ {e} : e \in PageElems(o)} \cup {{}}
       \cup (IF o = "book_id" THEN {PageElems(o) \cup {"moved"}} ELSE {})

Root(o) ==
    CASE o \in BookOps -> "#wrapper"
      [] o \in {"movie", "celebrities", "celebrity"} -> "#content"
      [] o = "photo" -> "li"
      [] OTHER -> ".result"

\* x.find(e) below the root container finds something.
Has(o, d, e) == Root(o) \in d /\ e \in d

\* The element that made the lookup of e come back empty.
Lost(o, d, e) == IF Root(o) \in d THEN e ELSE Root(o)

\* The identifier of a book record: the second to last segment of the final
\* URL of the response (bookapi.rs:152-154), which is the URL of the
\* request unless the site redirected: from an ISBN to its subject, from a
\* subject to another.
FinalId(o, a, d) ==
    IF o = "book_isbn" THEN IdOfIsbn(a.id)
    ELSE IF "moved" \in d THEN CHOOSE b \in BookIds : b # a.id
    ELSE a.id

\* The record an operation assembles from page d at version v, or the panic
\* of the first unwrap / index that finds nothing, in source order.
ExtractMovie(a, d, v) ==
    IF ~Has("movie", d, "h1")
    THEN PanicOn("api.rs:212", Lost("movie", d, "h1"))
    ELSE IF ~Has("movie", d, "a.nbgnbg>img@src")
         THEN PanicOn("api.rs:229", "a.nbgnbg>img@src")
    ELSE IF Has("movie", d, "li.celebrity") /\ ~Has("movie", d, "a.name@href")
         THEN PanicOn("api.rs:256", "a.name@href")
    ELSE IF Has("movie", d, "li.celebrity") /\ ~Has("movie", d, "div.avatar@style")
         THEN PanicOn("api.rs:258", "div.avatar@style")
    ELSE Ok([kind |-> "movie", id |-> a.id, variant |-> ImgVariant(a.size),
             ver |-> v, isbn |-> ""], "fetch")

ExtractPhoto(a, d, v) ==
    IF "li" \notin d
    THEN Ok([kind |-> "photo", id |-> a.id, variant |-> "empty",
             ver |-> v, isbn |-> ""], "fetch")
    ELSE IF "@data-id" \notin d THEN PanicOn("api.rs:424", "@data-id")
    ELSE Ok([kind |-> "photo", id |-> a.id,
             variant |-> IF "div.prop" \in d THEN "WxH" ELSE "",
             ver |-> v, isbn |-> ""], "fetch")

ExtractBook(o, a, d, v) ==
    IF ~Has(o, d, "a.nbg@href")
    THEN PanicOn("bookapi.rs:162", Lost(o, d, "a.nbg@href"))
    ELSE IF ~Has(o, d, "a.nbg>img@src")
         THEN PanicOn("bookapi.rs:163", "a.nbg>img@src")
    ELSE IF ~Has(o, d, "#info") THEN PanicOn("bookapi.rs:215", "#info")
    ELSE Ok([kind |-> "book", id |-> FinalId(o, a, d), variant |-> "",
             ver |-> v,
             isbn |-> IF "ISBN" \in d THEN IsbnOfId(FinalId(o, a, d)) ELSE ""],
            "fetch")

ExtractSearch(a, d, v) ==
    IF ".result" \notin d THEN Ok(EmptyList, "fetch")
    ELSE IF "a.nbg>img@src" \notin d
         THEN PanicOn("api.rs:141", "a.nbg>img@src")
    ELSE Ok([kind |-> "list", id |-> a.id,
             variant |-> IF "a@onclick" \in d THEN "sid" ELSE "",
             ver |-> v, isbn |-> ""], "fetch")

ExtractBookSearch(a, d, v) ==
    IF ".result" \notin d THEN Ok(EmptyList, "fetch")
    ELSE IF "a@onclick" \notin d THEN PanicOn("bookapi.rs:75", "a@onclick")
    ELSE IF ".pic img@src" \notin d
         THEN PanicOn("bookapi.rs:78", ".pic img@src")
    ELSE Ok([kind |-> "list", id |-> a.id, variant |-> "sid",
             ver |-> v, isbn |-> ""], "fetch")

ExtractCelebrities(a, d, v) ==
    IF ~Has("celebrities", d, "li.celebrity") THEN Ok(EmptyList, "fetch")
    ELSE IF "a.name@href" \notin d THEN PanicOn("api.rs:318", "a.name@href")
    ELSE IF "div.avatar@style" \notin d
         THEN PanicOn("api.rs:320", "div.avatar@style")
    ELSE Ok([kind |-> "list", id |-> a.id, variant |-> "celebrities",
             ver |-> v, isbn |-> ""], "fetch")

ExtractCelebrity(a, d, v) ==
    IF ~Has("celebrity", d, ".nbg img@src")
    THEN PanicOn("api.rs:377", Lost("celebrity", d, ".nbg img@src"))
    ELSE Ok([kind |-> "celebrity", id |-> a.id,
             variant |-> IF "h1" \in d THEN "named" ELSE "",
             ver |-> v, isbn |-> ""], "fetch")

Extract(o, a, d, v) ==
    CASE o = "movie" -> ExtractMovie(a, d, v)
      [] o = "photo" -> ExtractPhoto(a, d, v)
      [] o \in BookOps -> ExtractBook(o, a, d, v)
      [] o = "search" -> ExtractSearch(a, d, v)
      [] o = "book_search" -> ExtractBookSearch(a, d, v)
      [] o = "celebrities" -> ExtractCelebrities(a, d, v)
      [] OTHER -> ExtractCelebrity(a, d, v)

\* -------------------------------------------------------- upstream failures

\* What an operation does when send() fails (connect error, timeout).
\* DoubanBookApi::search unwraps the Err that get_list returns.
OnSendError(o) ==
    IF o = "book_search" THEN Panic("bookapi.rs:44") ELSE Err("send")

\* What an operation does when reading the body fails.
OnTextError(o) ==
    IF o = "book_search" THEN Panic("bookapi.rs:44") ELSE Err("text")

\* What an operation does with a non-success status (error_for_status).
OnStatusError(o) ==
    CASE o = "movie" -> Panic("api.rs:204")
      [] o = "celebrities" -> Panic("api.rs:308")
      [] o = "celebrity" -> Panic("api.rs:368")
      [] o = "photo" -> Panic("api.rs:417")
      [] o \in BookOps -> Err("status")
      [] OTHER -> Ok(EmptyList, "status")




\* -------------------------------------------------------------------- state

VARIABLES
    cache,     \* cache[c]: the entries of cache c, key -> [val, age]
    upstream,  \* the version of the pages the site serves now
    pc,        \* pc[p]: where handler p stands
    op,        \* op[p]: the operation of its request
    arg,       \* arg[p]: the arguments of its request
    rec,       \* rec[p]: the record it assembled
    nfetch,    \* nfetch[p]: upstream requests sent by its request
    out,       \* the request that ended last, and what it ended with
    calls,     \* requests accepted so far
    raced,     \* history: raced[p], its request missed the cache together
               \* with another request for the same key
    put,       \* history: put[c][k], the entry last inserted under k, while
               \* less than the time to live has passed since
    ev,        \* history: how the last insert went
    fin,       \* the input of a function checked on its own
    fout,      \* its output
    fdone      \* whether the function was applied

mvars == <<cache, upstream, pc, op, arg, rec, nfetch, out, calls, raced, put, ev>>
fvars == <<fin, fout, fdone>>
vars == <<mvars, fvars>>

NoArg == [id |-> "", size |-> ""]
NoOut ==
    [by |-> 0, op |-> "none", arg |-> NoArg, res |-> NoRes, nfetch |-> 0,
     up |-> "", raced |-> FALSE]
NoEv == [cache |-> "", key |-> "", how |-> "none", by |-> 0]

\* The state after construction: empty caches, idle handlers.
MachineInit ==
    /\ cache = [c \in Caches |-> <<>>]
    /\ upstream = 1
    /\ put = [c \in Caches |-> <<>>]
    /\ ev = NoEv
    /\ pc = [p \in Procs |-> "idle"]
    /\ op = [p \in Procs |-> "none"]
    /\ arg = [p \in Procs |-> NoArg]
    /\ rec = [p \in Procs |-> NoRec]
    /\ nfetch = [p \in Procs |-> 0]
    /\ raced = [p \in Procs |-> FALSE]
    /\ out = NoOut
    /\ calls = 0

Init ==
    /\ MachineInit
    /\ fin = <<>>
    /\ fout = <<>>
    /\ fdone = FALSE

\* Handler p, serving operation o with arguments a, returns r to its caller
\* (or panics with r) after n upstream requests, the last of which ended as
\* u, and is idle again.
Return(p, o, a, n, u, r) ==
    /\ out' = [by |-> p, op |-> o, arg |-> a, res |-> r, nfetch |-> n,
               up |-> u, raced |-> raced[p]]
    /\ pc' = [pc EXCEPT ![p] = "idle"]
    /\ op' = [op EXCEPT ![p] = "none"]
    /\ arg' = [arg EXCEPT ![p] = NoArg]
    /\ rec' = [rec EXCEPT ![p] = NoRec]
    /\ nfetch' = [nfetch EXCEPT ![p] = 0]
    /\ raced' = [raced EXCEPT ![p] = FALSE]

\* Handler p goes on to position l of its request.
Goto(p, l, n, r) ==
    /\ pc' = [pc EXCEPT ![p] = l]
    /\ rec' = [rec EXCEPT ![p] = r]
    /\ nfetch' = [nfetch EXCEPT ![p] = n]
    /\ UNCHANGED <<op, arg, out, raced>>

\* The handlers that wait for the upstream page of operation o with
\* arguments a, having missed the cache.
Fetching(o, a) ==
    {q \in Procs : pc[q] = "fetch" /\ op[q] = o /\ arg[q] = a}

\* A handler that goes to the upstream request without a look at the
\* cache.
CallAlt(p) ==
    /\ pc[p] = "idle"
    /\ \A q \in Procs : q < p => pc[q] # "idle"
    /\ calls < MaxCalls
    /\ calls' = calls + 1
    /\ \E o \in Ops : \E a \in Args(o) :
          IF o \in SearchOps /\ a.id = ""
          THEN Return(p, o, a, 0, "", Ok(EmptyList, "empty-query"))
          ELSE /\ pc' = [pc EXCEPT ![p] = "fetch"]
               /\ op' = [op EXCEPT ![p] = o]
               /\ arg' = [arg EXCEPT ![p] = a]
               /\ raced' = [q \in Procs |->
                               IF o \in CachedOps /\ Fetching(o, a) # {}
                                  /\ q \in Fetching(o, a) \cup {p}
                               THEN TRUE ELSE raced[q]]
               /\ UNCHANGED <<rec, nfetch, out>>
    /\ UNCHANGED <<cache, upstream, put, ev, fvars>>

\* A request of operation o with arguments a reaches the first idle handler,
\* which runs up to its first cache access: the presence test
\* CACHE.get(&cache_key).is_some() of the cached operations.  search and
\* get_list return the empty list for an empty query; the others go on to
\* the upstream request.
Call(p) ==
    /\ pc[p] = "idle"
    /\ \A q \in Procs : q < p => pc[q] # "idle"
    /\ calls < MaxCalls
    /\ calls' = calls + 1
    /\ \E o \in Ops : \E a \in Args(o) :
          IF o \in SearchOps /\ a.id = ""
          THEN Return(p, o, a, 0, "", Ok(EmptyList, "empty-query"))
          ELSE LET hit == o \in CachedOps
                          /\ HasLive(cache[CacheOf(o)], CacheKey(o, a))
                   race == o \in CachedOps /\ ~hit /\ Fetching(o, a) # {}
               IN  /\ pc' = [pc EXCEPT ![p] = IF hit THEN "hit" ELSE "fetch"]
                   /\ op' = [op EXCEPT ![p] = o]
                   /\ arg' = [arg EXCEPT ![p] = a]
                   /\ raced' = [q \in Procs |->
                                   IF race /\ q \in Fetching(o, a) \cup {p}
                                   THEN TRUE ELSE raced[q]]
                   /\ UNCHANGED <<rec, nfetch, out>>
    /\ UNCHANGED <<cache, upstream, put, ev, fvars>>

\* The place of the read that follows a successful presence test.
HitSite(o) ==
    CASE o = "movie" -> "api.rs:195"
      [] o = "photo" -> "api.rs:408"
      [] o = "book_isbn" -> "bookapi.rs:293"
      [] OTHER -> "bookapi.rs:303"

\* CACHE.get(&cache_key).unwrap(): the second read of the key.
HitRead(p) ==
    /\ pc[p] = "hit"
    /\ LET cm == cache[CacheOf(op[p])]
           k == CacheKey(op[p], arg[p])
       IN  IF HasLive(cm, k)
           THEN Return(p, op[p], arg[p], nfetch[p], "", Ok(cm[k].val, "cache"))
           ELSE Return(p, op[p], arg[p], nfetch[p], "", Panic(HitSite(op[p])))
    /\ UNCHANGED <<cache, upstream, calls, put, ev, fvars>>

\* The upstream request of handler p fails: send().await fails (connect
\* error, timeout), error_for_status() finds a non-success status, or
\* text().await fails.
FetchFail(p) ==
    /\ pc[p] = "fetch"
    /\ \/ Return(p, op[p], arg[p], nfetch[p] + 1, "send", OnSendError(op[p]))
       \/ Return(p, op[p], arg[p], nfetch[p] + 1, "status", OnStatusError(op[p]))
       \/ Return(p, op[p], arg[p], nfetch[p] + 1, "text", OnTextError(op[p]))
    /\ UNCHANGED <<cache, upstream, calls, put, ev, fvars>>

\* CACHE.insert(k, r).await by handler p.
DoInsert(p, c, k, r) ==
    LET e == [val |-> r, age |-> 0]
    IN  \E cm2 \in Inserted(cache[c], k, e) :
           /\ cache' = [cache EXCEPT ![c] = cm2]
           /\ put' = [put EXCEPT ![c] = Store(@, k, e)]
           /\ ev' = [cache |-> c, key |-> k,
                     how |-> InsertOutcome(cache[c], cm2, k), by |-> p]

\* A first insert under the key of the request, for books too.
InsertKeyAlt(o, a, r) == CacheKey(o, a)

\* The key of the first insert: the request's cache_key (api.rs:295, 447),
\* the record's id for a book (bookapi.rs:261, 285).
InsertKey(o, a, r) == IF o \in BookOps THEN r.id ELSE CacheKey(o, a)

\* A handler that writes what it has into the cache before it is known
\* whether the extraction came to its end.
FetchPageAlt(p) ==
    /\ pc[p] = "fetch"
    /\ \E d \in Docs(op[p]) :
          LET r == Extract(op[p], arg[p], d, upstream)
          IN  IF op[p] \in CachedOps
              THEN /\ DoInsert(p, CacheOf(op[p]),
                               InsertKey(op[p], arg[p], r.val), r.val)
                   /\ IF r.tag = "ok" /\ op[p] \in BookOps
                      THEN Goto(p, "insert2", nfetch[p] + 1, r.val)
                      ELSE Return(p, op[p], arg[p], nfetch[p] + 1, "page", r)
              ELSE /\ Return(p, op[p], arg[p], nfetch[p] + 1, "page", r)
                   /\ UNCHANGED <<cache, put, ev>>
    /\ UNCHANGED <<upstream, calls, fvars>>

\* The upstream request of handler p brings page d and the extraction runs
\* on it.  A panic ends the request.  The record of a cached operation is
\* inserted, and returned unless a second insert follows (a book); the
\* record of another operation is returned.
FetchPage(p) ==
    /\ pc[p] = "fetch"
    /\ \E d \in Docs(op[p]) :
          LET r == Extract(op[p], arg[p], d, upstream)
          IN  IF r.tag = "ok" /\ op[p] \in CachedOps
              THEN /\ DoInsert(p, CacheOf(op[p]),
                               InsertKey(op[p], arg[p], r.val), r.val)
                   /\ IF op[p] \in BookOps
                      THEN Goto(p, "insert2", nfetch[p] + 1, r.val)
                      ELSE Return(p, op[p], arg[p], nfetch[p] + 1, "page", r)
              ELSE /\ Return(p, op[p], arg[p], nfetch[p] + 1, "page", r)
                   /\ UNCHANGED <<cache, put, ev>>
    /\ UNCHANGED <<upstream, calls, fvars>>

\* The second insert of get_book_internal, under the record's ISBN
\* (bookapi.rs:262, 286), and the return.
Insert2(p) ==
    /\ pc[p] = "insert2"
    /\ DoInsert(p, "BOOK_CACHE", rec[p].isbn, rec[p])
    /\ Return(p, op[p], arg[p], nfetch[p], "page", Ok(rec[p], "fetch"))
    /\ UNCHANGED <<upstream, calls, fvars>>

\* Time passes: every entry ages by one tick, up to the time to live.
Aged(cm) ==
    [k \in DOMAIN cm |->
        [cm[k] EXCEPT !.age = IF @ < TTL THEN @ + 1 ELSE @]]

\* The history forgets an insert once the time to live has passed.
Recent(cm) ==
    [k \in {x \in DOMAIN cm : cm[x].age < TTL} |-> cm[k]]

Tick ==
    /\ \E c \in Caches : DOMAIN put[c] # {}
    /\ cache' = [c \in Caches |-> Aged(cache[c])]
    /\ put' = [c \in Caches |-> Recent(Aged(put[c]))]
    /\ UNCHANGED <<upstream, pc, op, arg, rec, nfetch, out, calls, raced, ev, fvars>>

\* The cache's housekeeping removes an expired entry.
Purge ==
    /\ \E c \in Caches : \E k \in DOMAIN cache[c] :
          /\ ~Live(cache[c][k])
          /\ cache' = [cache EXCEPT ![c] = Drop(@, k)]
    /\ UNCHANGED <<upstream, pc, op, arg, rec, nfetch, out, calls, raced, put, ev, fvars>>

\* The site changes its pages.
Publish ==
    /\ upstream < MaxVer
    /\ upstream' = upstream + 1
    /\ UNCHANGED <<cache, pc, op, arg, rec, nfetch, out, calls, raced, put, ev, fvars>>

\* Every operation of Douban and DoubanBookApi, served concurrently.
Next ==
    \/ \E p \in Procs : Call(p)
    \/ \E p \in Procs : HitRead(p)
    \/ \E p \in Procs : FetchFail(p)
    \/ \E p \in Procs : FetchPage(p)
    \/ \E p \in Procs : Insert2(p)
    \/ Tick
    \/ Purge
    \/ Publish

Spec == Init /\ [][Next]_vars

\* ------------------------------------------------------ the result caches

\* The cache and the key of the request handler p serves, before and after
\* a step.
ReqCache(p) == CacheOf(op[p])
ReqKey(p) == CacheKey(op[p], arg[p])
ReqCacheNext(p) == CacheOf(op'[p])
ReqKeyNext(p) == CacheKey(op'[p], arg'[p])

\* A step in which handler p accepts a request of a cached operation and
\* checks the cache for its key.
Checks(p) == pc[p] = "idle" /\ pc'[p] # "idle" /\ op'[p] \in CachedOps

\* A step in which handler p ends the request it found in the cache.
Reads(p) == pc[p] = "hit" /\ pc'[p] = "idle"

\* A record was inserted under key k of cache c less than the time to live
\* ago, and key k has not been evicted since.
Fresh(c, k) == k \in DOMAIN put[c] /\ k \in DOMAIN cache[c]

\* A step in which handler p inserts a record into a cache, and the record
\* of the insert.
Inserts(p) ==
    \/ pc[p] = "insert2" /\ pc'[p] = "idle"
    \/ pc[p] = "fetch" /\ pc'[p] = "insert2"
    \/ /\ pc[p] = "fetch" /\ pc'[p] = "idle" /\ op[p] \in CachedOps
       /\ out'.up = "page" /\ out'.res.tag = "ok"
InsRec(p) ==
    IF pc[p] = "insert2" THEN rec[p]
    ELSE IF pc'[p] = "insert2" THEN rec'[p] ELSE out'.res.val

\* Cache c holds as many entries as it may, and none under key k.
FullFor(c, k) ==
    k \notin DOMAIN cache[c] /\ Cardinality(DOMAIN cache[c]) = CACHE_SIZE

\* C1: for get_movie_info, get_wallpaper, get_book_info and
\* get_book_info_by_isbn, once a record was inserted under key K, a later
\* call for K that comes before the time to live has passed, and while K has
\* not been evicted, finds K in the cache, sends no upstream request and
\* returns a record equal to the inserted one.
C1_CacheRoundTripHit ==
    [][\A p \in Procs :
          /\ (Checks(p) /\ Fresh(ReqCacheNext(p), ReqKeyNext(p)))
                => (pc'[p] = "hit" /\ nfetch'[p] = 0)
          /\ (Reads(p) /\ Fresh(ReqCache(p), ReqKey(p)))
                => /\ out'.by = p
                   /\ out'.res = Ok(put[ReqCache(p)][ReqKey(p)].val, "cache")
                   /\ out'.nfetch = 0]_vars

\* A call was answered from the cache with the record inserted before, and
\* without an upstream request.
C1_Witness ==
    /\ out.op \in CachedOps
    /\ out.res.tag = "ok" /\ out.res.at = "cache"
    /\ out.nfetch = 0
    /\ Fresh(CacheOf(out.op), CacheKey(out.op, out.arg))
    /\ put[CacheOf(out.op)][CacheKey(out.op, out.arg)].val = out.res.val

\* C2: once the time to live (10 minutes) has passed since the insert of an
\* entry, the entry counts as absent, however many entries the cache holds:
\* a call for its key misses and sends an upstream request, a record is
\* returned from the cache only if it was inserted less than the time to
\* live ago, and the reads of a call leave the cache as it is, so that they
\* do not extend the life of an entry.
C2_TtlExpiry ==
    [][\A p \in Procs :
          /\ (Checks(p) /\ ReqKeyNext(p) \notin DOMAIN put[ReqCacheNext(p)])
                => (pc'[p] = "fetch" /\ nfetch'[p] = 0)
          /\ (pc[p] = "fetch" /\ op[p] \in CachedOps /\ pc'[p] # "fetch")
                => (IF pc'[p] = "idle" THEN out'.nfetch ELSE nfetch'[p]) = 1
          /\ (Reads(p) /\ out'.res.tag = "ok")
                => ReqKey(p) \in DOMAIN put[ReqCache(p)]
          /\ (Checks(p) \/ Reads(p)) => cache' = cache]_vars

\* A call has missed the cache although the cache still holds an entry
\* under its key, which has expired.
C2_Witness ==
    \E p \in Procs :
       /\ pc[p] = "fetch" /\ op[p] \in CachedOps
       /\ ReqKey(p) \in DOMAIN cache[ReqCache(p)]
       /\ ~Live(cache[ReqCache(p)][ReqKey(p)])

\* No cache holds more entries than its maximum.
WithinCapacity ==
    \A c \in Caches : Cardinality(DOMAIN cache[c]) <= CACHE_SIZE

C4_KeyIncludesVariant ==
    /\ (out.op = "movie" /\ out.res.tag = "ok")
          => /\ out.res.val.id = out.arg.id
             /\ out.res.val.variant = ImgVariant(out.arg.size)
    /\ \A a \in Args("movie") :
          CacheKey("movie", a) \in DOMAIN cache["MOVIE_CACHE"]
             => /\ cache["MOVIE_CACHE"][CacheKey("movie", a)].val.id = a.id
                /\ cache["MOVIE_CACHE"][CacheKey("movie", a)].val.variant
                      = ImgVariant(a.size)

\* The movie cache holds both variants of one sid, each under its own key,
\* and the last request was for one of them.
C4_Witness ==
    \E sid \in Sids :
       /\ \A z \in ImageSizes :
             /\ CacheKey("movie", [id |-> sid, size |-> z])
                   \in DOMAIN cache["MOVIE_CACHE"]
             /\ cache["MOVIE_CACHE"][CacheKey("movie", [id |-> sid, size |-> z])]
                   .val.variant = ImgVariant(z)
       /\ out.op = "movie" /\ out.arg.id = sid /\ out.res.tag = "ok"

\* A step in which handler p ends its request.
Ends(p) == pc[p] # "idle" /\ pc'[p] = "idle"

\* A step in which handler p ends, with a record, a request that raced with
\* the request of the same key that ended last, with a record as well,
\* while no other request has come since.
EndsRace(p) ==
    /\ Ends(p) /\ raced[p] /\ out'.res.tag = "ok"
    /\ out.by # p /\ out.raced /\ out.res.tag = "ok"
    /\ out.op = op[p] /\ out.arg = arg[p]
    /\ \A q \in Procs \ {p} : pc[q] = "idle"

\* C5 as stated: when two calls of a cached operation for the same uncached
\* key interleave, every insert of theirs leaves the entries under other
\* keys as they were, and when the second of them has returned the cache
\* holds an unexpired entry under the key whose value is the record one of
\* the two returned.
C5_RaceLeavesOneEntryOthersUnchanged ==
    [][\A p \in Procs :
          /\ (Inserts(p) /\ raced[p])
                => \A x \in DOMAIN cache[ReqCache(p)] \ {ReqKey(p)} :
                      /\ x \in DOMAIN cache'[ReqCache(p)]
                      /\ cache'[ReqCache(p)][x] = cache[ReqCache(p)][x]
          /\ EndsRace(p)
                => /\ HasLive(cache'[ReqCache(p)], ReqKey(p))
                   /\ cache'[ReqCache(p)][ReqKey(p)].val
                         \in {out.res.val, out'.res.val}]_vars

\* C5 amended: when two calls of a cached operation for the same uncached
\* key interleave, each sends its own upstream request, and every insert of
\* theirs into a cache that is not full for its key stores the caller's
\* record under that key (a book call inserts under the record's id and
\* under its ISBN) and leaves the entries under all other keys as they were;
\* when the second of them has returned, and no third call has come, the
\* entry under the key, if the cache holds an unexpired one, has the record
\* one of the two returned.
C5_NoSingleFlightNoCorruption ==
    [][\A p \in Procs :
          /\ (Inserts(p) /\ raced[p])
                => /\ (IF pc'[p] = "idle" THEN out'.nfetch ELSE nfetch'[p]) = 1
                   /\ ~FullFor(ev'.cache, ev'.key)
                         => LET old == cache[ev'.cache]
                                new == cache'[ev'.cache]
                            IN  /\ DOMAIN new = DOMAIN old \cup {ev'.key}
                                /\ new[ev'.key] = [val |-> InsRec(p), age |-> 0]
                                /\ \A x \in DOMAIN old \ {ev'.key} :
                                      new[x] = old[x]
          /\ (EndsRace(p) /\ HasLive(cache'[ReqCache(p)], ReqKey(p)))
                => cache'[ReqCache(p)][ReqKey(p)].val
                      \in {out.res.val, out'.res.val}]_vars

\* Two calls for one key have raced and both have returned a record; the
\* insert of the second replaced the entry of the first, and the cache
\* holds the record of the second under the key.
C5_Witness ==
    /\ \A p \in Procs : pc[p] = "idle"
    /\ out.raced /\ out.res.tag = "ok" /\ out.nfetch = 1
    /\ ev.by = out.by /\ ev.how = "replaced"
    /\ CacheKey(out.op, out.arg) \in DOMAIN cache[CacheOf(out.op)]
    /\ cache[CacheOf(out.op)][CacheKey(out.op, out.arg)].val = out.res.val

\* ------------------------------------------------------ failures and panics

\* C6: for every operation that fetches, when the upstream request ends in
\* a network failure, a timeout or a non-success status, the operation has
\* sent one upstream request and no second one, and returns a failure to
\* its caller: not a record, not an empty result, and no panic.
C6_UpstreamFailurePropagated ==
    out.up \in {"send", "status", "text"}
       => (out.nfetch = 1 /\ out.res.tag = "err")

\* C8: when the root container of the page is found and a single element or
\* attribute below it is missing, the operation does not panic.
C8_FieldAbsenceDefaulted ==
    ~(/\ out.up = "page"
      /\ out.res.tag = "panic"
      /\ out.res.miss \notin {"", Root(out.op)})

\* C10: when the page lacks the root container, get_movie_info,
\* get_celebrity and the book lookups return a failure to their caller:
\* not a record, and no panic.
C10_MissingRootIsFailure ==
    (/\ out.op \in {"movie", "celebrity"} \cup BookOps
     /\ out.up = "page"
     /\ out.res.miss = Root(out.op))
       => out.res.tag = "err"

\* C21: in get_movie_info, get_wallpaper, get_book_info and
\* get_book_info_by_isbn, whenever the presence test has found an entry
\* under the key, the read that follows returns a record to the caller:
\* whatever expires, is evicted or is requested between the two, the call
\* does not panic and does not end without a record.
C21_CachedReadAtomic ==
    [][\A p \in Procs :
          Reads(p) => (out'.res.tag = "ok" /\ out'.res.val # NoRec)]_vars

\* The keys of cache c written in this step: a key is new, or its value or
\* its age is that of a new insert.
Written(c) ==
    {k \in DOMAIN cache'[c] :
        \/ k \notin DOMAIN cache[c]
        \/ cache'[c][k].val # cache[c][k].val
        \/ cache'[c][k].age < cache[c][k].age}

\* The request of handler p ends without a record.
Fails(p) == Ends(p) /\ op[p] \in CachedOps /\ out'.res.tag # "ok"

\* C23: for get_movie_info, get_wallpaper, get_book_info and
\* get_book_info_by_isbn, the step in which a call ends without a record
\* leaves the caches as they are, and such a call has not come to an insert
\* before; a cache is written only by the insert of a handler whose record
\* is assembled, the written value is that record, and the call returns it.
C23_FailureLeavesCachesUnchanged ==
    [][/\ \A p \in Procs :
             Fails(p) => (cache' = cache /\ put' = put
                             /\ pc[p] \in {"fetch", "hit"})
       /\ \A p \in Procs :
             (pc[p] \in {"idle", "hit"} /\ pc'[p] # pc[p])
                => (cache' = cache /\ put' = put)
       /\ (ev' # ev \/ \E c \in Caches : Written(c) # {})
             => \E p \in Procs :
                   /\ Inserts(p)
                   /\ ev'.by = p /\ ev'.cache = CacheOf(op[p])
                   /\ InsRec(p) # NoRec
                   /\ \A c \in Caches : \A k \in Written(c) :
                         /\ c = ev'.cache /\ k = ev'.key
                         /\ cache'[c][k].val = InsRec(p)
                   /\ pc'[p] = "idle" => out'.res = Ok(InsRec(p), "fetch")
                   /\ pc'[p] = "insert2" => rec'[p] = InsRec(p)]_vars

\* A call for a cached operation has ended without a record, its page
\* fetched and its extraction aborted, while the cache of its operation
\* holds an entry.
C23_Witness ==
    /\ out.op \in CachedOps
    /\ out.up = "page"
    /\ out.res.tag # "ok"
    /\ cache[CacheOf(out.op)] # <<>>

\* The request of handler p, a book lookup, ends with the record it
\* assembled from a page.
EndsBookFetch(p) ==
    Ends(p) /\ op[p] \in BookOps /\ pc[p] = "insert2" /\ out'.res.tag = "ok"

Cats == {"movie", "tv", "book", ""}

\* The lists of parsed results, in document order; the sid of a result is
\* its place in the document.
ResultLists ==
    UNION {{[i \in 1..n |-> [sid |-> i, cat |-> f[i]]] : f \in [1..n -> Cats]}
              : n \in 0..MaxResults}

\* iter.take(n)
Take(s, n) == SubSeq(s, 1, IF n < Len(s) THEN n ELSE Len(s))

\* .filter(|x| x.cat == film || x.cat == series)
KeepsCat(x) == x.cat = "movie" \/ x.cat = "tv"

\* A search that cuts the list before it filters.
SearchResultsAlt(list, limit) ==
    IF limit > 0 THEN SelectSeq(Take(list, limit), KeepsCat)
    ELSE SelectSeq(list, KeepsCat)

\* What Douban::search returns of the list of parsed results: the filter,
\* then take(limit) when limit > 0.
SearchResults(list, limit) ==
    LET iter == SelectSeq(list, KeepsCat)
    IN  IF limit > 0 THEN Take(iter, limit) ELSE iter

InitSearch ==
    /\ MachineInit
    /\ fin \in [list : ResultLists, limit : -1..MaxLimit]
    /\ fout = <<>>
    /\ fdone = FALSE

ApplySearch ==
    /\ ~fdone
    /\ fout' = SearchResults(fin.list, fin.limit)
    /\ fdone' = TRUE
    /\ UNCHANGED <<fin, mvars>>

SpecSearch == InitSearch /\ [][ApplySearch]_vars

\* The places of the results of the two kept categories, and the number of
\* such places up to place i.
KeptPlaces(list) == {i \in 1..Len(list) : list[i].cat \in {"movie", "tv"}}
RankOf(list, i) == Cardinality({j \in KeptPlaces(list) : j <= i})

\* C7: for every list of parsed results and every limit N, search returns
\* the results of category film or television series, in document order:
\* the first N of them when N > 0, all of them when N <= 0.  A result of
\* another category is never returned and does not count against N.
C7_FilterBeforeLimit ==
    fdone =>
       LET list == fin.list
           n == Cardinality(KeptPlaces(list))
           want == IF fin.limit > 0 /\ fin.limit < n THEN fin.limit ELSE n
       IN  /\ Len(fout) = want
           /\ \A i \in KeptPlaces(list) :
                 RankOf(list, i) <= want => fout[RankOf(list, i)] = list[i]
           /\ \A k \in 1..Len(fout) : fout[k].cat \in {"movie", "tv"}

\* A search with a limit N > 0 has returned N results although a result of
\* another category stood among the first N of the list.
C7_Witness ==
    /\ fdone
    /\ fin.limit > 0
    /\ Len(fout) = fin.limit
    /\ \E i \in 1..fin.limit : fin.list[i].cat \notin {"movie", "tv"}

\* --------------------------------------------------------------- parse_info

\* The fields of parse_info, named by their labels; each label of the info
\* text is one symbol of the text.
InfoLabels ==
    {"director", "writer", "actor", "genre", "site", "country", "language",
     "screen", "duration", "subname", "imdb"}

\* The lines an info text is made of: a label with a value, with the empty
\* value, without the blank after the colon, without the end of line, and a
\* line without a label.  "nl" is the end of line.
InfoLines ==
    {<<"director", ":", " ", "x", "nl">>,
     <<"director", ":", " ", "y", " ", "nl">>,
     <<"director", ":", " ", "nl">>,
     <<"director", ":", " ", "x">>,
     <<"imdb", ":", " ", "x", "nl">>,
     <<"genre", ":", "x", "nl">>,
     <<"x", "nl">>}

RECURSIVE Concat(_)
Concat(ls) == IF ls = <<>> THEN <<>> ELSE Head(ls) \o Concat(Tail(ls))

InfoTexts ==
    UNION {{Concat(ls) : ls \in [1..n -> InfoLines]} : n \in 0..MaxLines}

\* The place of the first end of line of t at or after place j, 0 if none.
RECURSIVE LineEnd(_, _)
LineEnd(t, j) ==
    IF j > Len(t) THEN 0
    ELSE IF t[j] = "nl" THEN j ELSE LineEnd(t, j + 1)

\* Whether the regex "<label>: (.+?)\n" matches t from place i on: the
\* label, a colon, a blank, one symbol or more that are no end of line, and
\* an end of line.
MatchesAt(t, l, i) ==
    /\ i + 4 <= Len(t)
    /\ t[i] = l /\ t[i + 1] = ":" /\ t[i + 2] = " "
    /\ t[i + 3] # "nl"
    /\ LineEnd(t, i + 4) # 0

\* Regex::captures(text), group 1: the group of the leftmost match, sought
\* from place i on; the empty string when there is no match.
RECURSIVE CaptureFrom(_, _, _)
CaptureFrom(t, l, i) ==
    IF i > Len(t) THEN <<>>
    ELSE IF MatchesAt(t, l, i) THEN SubSeq(t, i + 3, LineEnd(t, i + 4) - 1)
    ELSE CaptureFrom(t, l, i + 1)

\* A parse_info that takes the official site from the IMDb regex and the
\* IMDb field from the regex of the official site.
RegexOfAlt(f) ==
    CASE f = "site" -> "imdb" [] f = "imdb" -> "site" [] OTHER -> f

\* The label in the regex of a field: re_director for director, and so on.
RegexOf(f) == f

parse_info(text) ==
    [f \in InfoLabels |-> CaptureFrom(text, RegexOf(f), 1)]

InitParseInfo ==
    /\ MachineInit
    /\ fin \in InfoTexts
    /\ fout = <<>>
    /\ fdone = FALSE

ApplyParseInfo ==
    /\ ~fdone
    /\ fout' = parse_info(fin)
    /\ fdone' = TRUE
    /\ UNCHANGED <<fin, mvars>>

SpecParseInfo == InitParseInfo /\ [][ApplyParseInfo]_vars

\* Label l stands at place i of t, followed by a colon, a blank and the
\* value v, which is not empty, holds no end of line and is followed by one.
ValueAt(t, l, i, v) ==
    /\ Len(v) >= 1
    /\ i + 3 + Len(v) <= Len(t)
    /\ t[i] = l /\ t[i + 1] = ":" /\ t[i + 2] = " "
    /\ \A k \in 1..Len(v) : v[k] # "nl" /\ t[i + 2 + k] = v[k]
    /\ t[i + 3 + Len(v)] = "nl"

HasValueAt(t, l, i) ==
    \E n \in 1..Len(t) : i + 2 + n <= Len(t)
                            /\ ValueAt(t, l, i, SubSeq(t, i + 3, i + 2 + n))

\* C9: for every info text and every field of parse_info, if the label of
\* the field does not occur in the text then the field is the empty string;
\* and the absence of a label leaves the other fields as they are: a field
\* whose label occurs with a value has the value of the first such
\* occurrence.
C9_MissingLabelEmptyField ==
    fdone =>
       \A f \in InfoLabels :
          /\ (\A i \in 1..Len(fin) : fin[i] # f) => fout[f] = <<>>
          /\ \A i \in 1..Len(fin) :
                (HasValueAt(fin, f, i)
                    /\ \A j \in 1..(i - 1) : ~HasValueAt(fin, f, j))
                   => ValueAt(fin, f, i, fout[f])

\* parse_info has run on a text that holds the label of one field, with a
\* value, and lacks the labels of the others: the first has its value, the
\* others are empty.
C9_Witness ==
    /\ fdone
    /\ fout["imdb"] = <<"x">>
    /\ \A i \in 1..Len(fin) : fin[i] # "director"
    /\ fout["director"] = <<>>
    /\ fout["site"] = <<>>

\* C20: for every info text and every field of parse_info, if the label of
\* the field occurs with a value more than once (or once), the field has
\* the value of the last such occurrence.
C20_LastMatchWins ==
    fdone =>
       \A f \in InfoLabels :
          \A i \in 1..Len(fin) :
             (HasValueAt(fin, f, i)
                 /\ \A j \in (i + 1)..Len(fin) : ~HasValueAt(fin, f, j))
                => ValueAt(fin, f, i, fout[f])

\* -------------------------------------------------------------- search_full

\* What get_movie_info(sid, image_size) may end with: a record, from the
\* cache or from a page, an Err of the upstream request, or a panic.
MovieOutcomes(sid, size) ==
    LET a == [id |-> sid, size |-> size]
    IN  {Extract("movie", a, d, 1) : d \in Docs("movie")}
           \cup {OnSendError("movie"), OnStatusError("movie"),
                 OnTextError("movie")}

\* The batches of search_full: the sid of each search result, in search
\* order, with what get_movie_info ends with for it.
Batches ==
    UNION {[1..n -> UNION {{[sid |-> x, res |-> r] : r \in MovieOutcomes(x, "")}
                              : x \in Sids}]
              : n \in 0..MaxItems}

\* The loop of search_full over the first k results: each record is pushed
\* to the list, and the unwrap of a result that is no record panics.
RECURSIVE search_full(_, _)
search_full(items, k) ==
    IF k = 0 THEN [tag |-> "ok", at |-> "", list |-> <<>>]
    ELSE LET before == search_full(items, k - 1)
         IN  IF before.tag # "ok" THEN before
             ELSE IF items[k].res.tag = "ok"
                  THEN [before EXCEPT !.list = Append(@, items[k].res.val)]
             ELSE [tag |-> "panic", at |-> "api.rs:186", list |-> <<>>]

InitSearchFull ==
    /\ MachineInit
    /\ fin \in Batches
    /\ fout = <<>>
    /\ fdone = FALSE

ApplySearchFull ==
    /\ ~fdone
    /\ fout' = search_full(fin, Len(fin))
    /\ fdone' = TRUE
    /\ UNCHANGED <<fin, mvars>>

SpecSearchFull == InitSearchFull /\ [][ApplySearchFull]_vars

\* The records of the results whose detail record could be had, in search
\* order.
RECURSIVE GoodRecords(_)
GoodRecords(items) ==
    IF items = <<>> THEN <<>>
    ELSE (IF Head(items).res.tag = "ok" THEN <<Head(items).res.val>> ELSE <<>>)
            \o GoodRecords(Tail(items))

\* C11: in search_full, when the fetch or the extraction of the detail
\* record of one search result fails, the other results are still processed:
\* search_full returns the detail records of all the results that did not
\* fail, in search order, and does not abort.
C11_BatchSkipAndContinue ==
    fdone => (fout.tag = "ok" /\ fout.list = GoodRecords(fin))

\* ------------------------------------------------------------- book rating

\* A text is a sequence of characters.  The characters of rating texts:
\* digits, the point, the sign, the blank and a letter.
RatingChars == {"8", "9", ".", "-", " ", "x"}
Digits == {"0", "1", "2", "3", "4", "5", "6", "7", "8", "9"}

RatingTexts == UNION {[1..n -> RatingChars] : n \in 0..MaxRating}

\* str::trim(): the text without its leading and trailing blanks.
RECURSIVE TrimStart(_)
TrimStart(t) ==
    IF t # <<>> /\ Head(t) = " " THEN TrimStart(Tail(t)) ELSE t
RECURSIVE TrimEnd(_)
TrimEnd(t) ==
    IF t # <<>> /\ t[Len(t)] = " " THEN TrimEnd(SubSeq(t, 1, Len(t) - 1))
    ELSE t
Trim(t) == TrimStart(TrimEnd(t))

DigitValue(c) ==
    CASE c = "0" -> 0 [] c = "1" -> 1 [] c = "2" -> 2 [] c = "3" -> 3
      [] c = "4" -> 4 [] c = "5" -> 5 [] c = "6" -> 6 [] c = "7" -> 7
      [] c = "8" -> 8 [] OTHER -> 9

\* The number a sequence of digits writes.
RECURSIVE DigitsValue(_)
DigitsValue(t) ==
    IF t = <<>> THEN 0
    ELSE 10 * DigitsValue(SubSeq(t, 1, Len(t) - 1)) + DigitValue(t[Len(t)])

\* str::parse::<f32>() on texts of these characters: an optional sign, then
\* digits with at most one point among them and a digit on one side of it
\* at least.  The number is num / 10^scale; None when the text is no number.
ParseF32(t) ==
    LET neg == t # <<>> /\ Head(t) = "-"
        body == IF neg THEN Tail(t) ELSE t
        points == {i \in 1..Len(body) : body[i] = "."}
        digits == SelectSeq(body, LAMBDA c : c \in Digits)
    IN  IF /\ \A i \in 1..Len(body) : body[i] \in Digits \cup {"."}
           /\ Cardinality(points) <= 1
           /\ digits # <<>>
        THEN [some |-> TRUE, neg |-> neg, num |-> DigitsValue(digits),
              scale |-> IF points = {} THEN 0
                        ELSE Len(body) - (CHOOSE i \in points : TRUE)]
        ELSE [some |-> FALSE, neg |-> FALSE, num |-> 0, scale |-> 0]

ZeroRating == [tag |-> "ok", at |-> "", neg |-> FALSE, num |-> 0, scale |-> 0]

\* if text.is_empty() { 0.0 } else { text.parse::<f32>().unwrap() }, with
\* the unwrap at place site.
RatingFrom(t, site) ==
    IF t = <<>> THEN ZeroRating
    ELSE IF ParseF32(t).some
         THEN [tag |-> "ok", at |-> "", neg |-> ParseF32(t).neg,
               num |-> ParseF32(t).num, scale |-> ParseF32(t).scale]
    ELSE [tag |-> "panic", at |-> site, neg |-> FALSE, num |-> 0, scale |-> 0]

\* The rating of a search result: the text of .rating_nums as it is.
ListRating(t) == RatingFrom(t, "bookapi.rs:116")

\* The rating of a book page: the trimmed text of strong.rating_num.
DetailRating(t) == RatingFrom(Trim(t), "bookapi.rs:179")

InitRating ==
    /\ MachineInit
    /\ fin \in RatingTexts
    /\ fout = <<>>
    /\ fdone = FALSE

ApplyRating ==
    /\ ~fdone
    /\ fout' = [list |-> ListRating(fin), detail |-> DetailRating(fin)]
    /\ fdone' = TRUE
    /\ UNCHANGED <<fin, mvars>>

SpecRating == InitRating /\ [][ApplyRating]_vars

\* C12: for every rating text, book search and book detail produce a
\* rating and do not panic: 0 when the text is empty or no number, the
\* number the text writes otherwise.
C12_RatingTotal ==
    fdone =>
       \A w \in {"list", "detail"} :
          /\ fout[w].tag = "ok"
          /\ IF ParseF32(Trim(fin)).some
             THEN /\ fout[w].neg = ParseF32(Trim(fin)).neg
                  /\ fout[w].num = ParseF32(Trim(fin)).num
                  /\ fout[w].scale = ParseF32(Trim(fin)).scale
             ELSE fout[w] = ZeroRating

\* ------------------------------------------- the subjects of a book result

\* The tokens a subjects string is made of: none of them holds a slash.
SubjectTokens ==
    {<<>>, <<" ">>, <<"A", " ">>, <<" ", "B", " ">>,
     <<" ", "P", " ", "C", " ">>, <<" ", "2", "0", "2", "0">>,
     <<"2", "0", "2", "0">>, <<"T", ":">>}

\* The tokens joined by the character sep.
RECURSIVE Join(_, _)
Join(toks, sep) ==
    IF Len(toks) = 1 THEN toks[1]
    ELSE toks[1] \o <<sep>> \o Join(Tail(toks), sep)

\* The subjects strings of n tokens, each with the tokens it was written
\* from.
SubjectInputs(n) ==
    {[toks |-> f, text |-> Join(f, "/")] : f \in [1..n -> SubjectTokens]}

\* str::split(sep): the pieces of t between the occurrences of sep; one
\* piece, the empty one, for the empty text.
RECURSIVE Split(_, _)
Split(t, sep) ==
    IF \A i \in 1..Len(t) : t[i] # sep THEN <<t>>
    ELSE LET i == CHOOSE j \in 1..Len(t) :
                     t[j] = sep /\ \A k \in 1..(j - 1) : t[k] # sep
         IN  <<SubSeq(t, 1, i - 1)>> \o Split(SubSeq(t, i + 1, Len(t)), sep)

\* str::parse::<i32>() succeeds: an optional sign and digits, nothing else
\* (texts here are too short to overflow).
ParsesI32(t) ==
    LET body == IF t # <<>> /\ Head(t) \in {"-", "+"} THEN Tail(t) ELSE t
    IN  body # <<>> /\ \A i \in 1..Len(body) : body[i] \in Digits

\* A loop that stops one element later.
RECURSIVE FirstAuthorsAlt(_, _, _)
FirstAuthorsAlt(subjects, i, len) ==
    IF i > Len(subjects) THEN <<>>
    ELSE <<Trim(subjects[i])>>
            \o (IF i = len - 1 THEN <<>>
                ELSE FirstAuthorsAlt(subjects, i + 1, len))

\* for elem in subjects { author.push(elem.trim()); i += 1;
\* if i == len - 2 { break; } }, from element i on.
RECURSIVE FirstAuthors(_, _, _)
FirstAuthors(subjects, i, len) ==
    IF i > Len(subjects) THEN <<>>
    ELSE <<Trim(subjects[i])>>
            \o (IF i = len - 2 THEN <<>>
                ELSE FirstAuthors(subjects, i + 1, len))

\* What get_list makes of the text of .subject-cast.
SubjectsOf(text) ==
    LET subjects == Split(text, "/")
        len == Len(subjects)
    IN  IF len >= 3
        THEN [author |-> FirstAuthors(subjects, 1, len),
              publisher |-> Trim(subjects[len - 1]),
              pubdate |-> Trim(subjects[len])]
        ELSE IF len = 2
             THEN [author |-> <<Trim(subjects[1])>>,
                   publisher |-> IF ParsesI32(subjects[2]) THEN <<>>
                                 ELSE Trim(subjects[2]),
                   pubdate |-> IF ParsesI32(subjects[2]) THEN Trim(subjects[2])
                               ELSE <<>>]
        ELSE [author |-> <<Trim(subjects[1])>>, publisher |-> <<>>,
              pubdate |-> <<>>]

\* The info_array of a book page whose lines are the tokens with a line "/"
\* between them: the lines that are not blank, trimmed (bookapi.rs:206-211).
InfoArray(toks) ==
    LET lines == [i \in 1..(2 * Len(toks) - 1) |->
                     IF i % 2 = 1 THEN toks[(i + 1) \div 2] ELSE <<"/">>]
        kept == SelectSeq(lines, LAMBDA x : Trim(x) # <<>>)
    IN  [i \in 1..Len(kept) |-> Trim(kept[i])]

\* get_texts: the elements up to the first that holds a colon, without the
\* elements "/", trimmed.
RECURSIVE get_texts(_)
get_texts(array) ==
    IF array = <<>> THEN <<>>
    ELSE IF \E i \in 1..Len(Head(array)) : Head(array)[i] = ":" THEN <<>>
    ELSE IF Head(array) = <<"/">> THEN get_texts(Tail(array))
    ELSE <<Trim(Head(array))>> \o get_texts(Tail(array))

InitSubjects ==
    /\ MachineInit
    /\ \E n \in 1..MaxTokens : fin \in SubjectInputs(n)
    /\ fout = <<>>
    /\ fdone = FALSE

ApplySubjects ==
    /\ ~fdone
    /\ fout' = [search |-> SubjectsOf(fin.text),
                texts |-> get_texts(InfoArray(fin.toks))]
    /\ fdone' = TRUE
    /\ UNCHANGED <<fin, mvars>>

SpecSubjects == InitSubjects /\ [][ApplySubjects]_vars

\* C13: for every subjects string of n >= 3 tokens between slashes, book
\* search sets pubdate to the trimmed last token, publisher to the trimmed
\* token before it, and the authors to the first n - 2 tokens, trimmed, in
\* their order.
C13_SubjectsThreeOrMore ==
    (fdone /\ Len(fin.toks) >= 3) =>
       LET n == Len(fin.toks)
       IN  /\ fout.search.pubdate = Trim(fin.toks[n])
           /\ fout.search.publisher = Trim(fin.toks[n - 1])
           /\ fout.search.author = [i \in 1..(n - 2) |-> Trim(fin.toks[i])]

\* Book search has split "A / B / P C /  2020": two authors, the publisher
\* and the date.
C13_Witness ==
    /\ fdone
    /\ fin.text = <<"A", " ", "/", " ", "B", " ", "/", " ", "P", " ", "C",
                    " ", "/", " ", "2", "0", "2", "0">>
    /\ fout.search.author = << <<"A">>, <<"B">> >>
    /\ fout.search.publisher = <<"P", " ", "C">>
    /\ fout.search.pubdate = <<"2", "0", "2", "0">>

\* C14: for every subjects string of two tokens, book search sets the
\* author to the first token; the second token, when it is an integer, is
\* the pubdate and the publisher is empty, and otherwise it is the
\* publisher and the pubdate is empty.
C14_SubjectsTwoTokens ==
    (fdone /\ Len(fin.toks) = 2) =>
       /\ fout.search.author = <<Trim(fin.toks[1])>>
       /\ IF ParsesI32(Trim(fin.toks[2]))
          THEN /\ fout.search.pubdate = Trim(fin.toks[2])
               /\ fout.search.publisher = <<>>
          ELSE /\ fout.search.publisher = Trim(fin.toks[2])
               /\ fout.search.pubdate = <<>>

\* C15: the author list of a book search result, and the list get_texts
\* makes for the authors and translators of a book page, hold no element
\* that is empty or blank.
C15_NoBlankListElements ==
    fdone =>
       /\ \A i \in 1..Len(fout.search.author) :
             Trim(fout.search.author[i]) # <<>>
       /\ \A i \in 1..Len(fout.texts) : Trim(fout.texts[i]) # <<>>

\* -------------------------------------------------- the size of a photo

\* The texts of div.prop: digits, the letter x, another separator, a blank.
LabelChars == {"1", "2", "x", "*", " "}
SizeLabels == UNION {[1..n -> LabelChars] : n \in 0..MaxLabel}

\* What get_wallpaper makes of the text of div.prop: size is the trimmed
\* text, width and height are arr[0] and arr[1] of size.split('x') when
\* size is not empty; arr[1] panics when there is one piece only.
PhotoSize(text) ==
    LET size == Trim(text)
        arr == Split(size, "x")
    IN  IF size = <<>>
        THEN [tag |-> "ok", at |-> "", size |-> size,
              width |-> <<>>, height |-> <<>>]
        ELSE IF Len(arr) < 2
             THEN [tag |-> "panic", at |-> "api.rs:434", size |-> size,
                   width |-> <<>>, height |-> <<>>]
        ELSE [tag |-> "ok", at |-> "", size |-> size,
              width |-> arr[1], height |-> arr[2]]

InitPhotoSize ==
    /\ MachineInit
    /\ fin \in SizeLabels
    /\ fout = <<>>
    /\ fdone = FALSE

ApplyPhotoSize ==
    /\ ~fdone
    /\ fout' = PhotoSize(fin)
    /\ fdone' = TRUE
    /\ UNCHANGED <<fin, mvars>>

SpecPhotoSize == InitPhotoSize /\ [][ApplyPhotoSize]_vars

\* C16: for every size label, get_wallpaper does not panic; width and
\* height are both empty when the label is empty, and otherwise they are
\* the first two parts of the label between its letters x.
C16_PhotoDimensions ==
    fdone =>
       /\ fout.tag = "ok"
       /\ Trim(fin) = <<>> => (fout.width = <<>> /\ fout.height = <<>>)
       /\ Trim(fin) # <<>> =>
             LET w == fout.width
                 h == fout.height
                 t == Trim(fin)
             IN  /\ \A i \in 1..Len(w) : w[i] # "x"
                 /\ \A i \in 1..Len(h) : h[i] # "x"
                 /\ Len(w) + 1 + Len(h) <= Len(t)
                 /\ SubSeq(t, 1, Len(w) + 1 + Len(h)) = w \o <<"x">> \o h
                 /\ Len(t) > Len(w) + 1 + Len(h)
                       => t[Len(w) + 2 + Len(h)] = "x"

\* ------------------------------------------------- the list of celebrities

\* The role types of celebrity entries: "director", "voice" and "actor"
\* stand for the three texts get_celebrities keeps, "writer" and "" (no
\* role text) for the others.
RoleTypes == {"director", "voice", "actor", "writer", ""}

\* .take(15)
CelebrityLimit == 15

\* The lists of celebrity entries, in document order; the id of an entry
\* is its place on the page.  Short lists over all role types, and lists
\* long enough to pass the limit: actors, with a writer at up to two places
\* (place 0 is no place).
CelebrityLists ==
    UNION {{[i \in 1..n |-> [id |-> i, role_type |-> f[i]]]
               : f \in [1..n -> RoleTypes]} : n \in 0..MaxShort}
       \cup
    UNION {{[i \in 1..n |-> [id |-> i,
                             role_type |-> IF i \in w THEN "writer"
                                                      ELSE "actor"]]
               : w \in {{a, b} : a, b \in 0..n}}
              : n \in CelebrityLimit..MaxLong}

\* .filter(|x| x.role_type == director || .. == voice || .. == actor)
KeepsRole(x) == x.role_type \in {"director", "voice", "actor"}

\* A list cut before it is filtered.
CelebritiesOfAlt(list) == SelectSeq(Take(list, CelebrityLimit), KeepsRole)

\* What get_celebrities returns of the entries of the page.
CelebritiesOf(list) == Take(SelectSeq(list, KeepsRole), CelebrityLimit)

InitCelebrities ==
    /\ MachineInit
    /\ fin \in CelebrityLists
    /\ fout = <<>>
    /\ fdone = FALSE

ApplyCelebrities ==
    /\ ~fdone
    /\ fout' = CelebritiesOf(fin)
    /\ fdone' = TRUE
    /\ UNCHANGED <<fin, mvars>>

SpecCelebrities == InitCelebrities /\ [][ApplyCelebrities]_vars

\* The places of the entries of a kept role type, and the number of such
\* places up to place i.
RolePlaces(list) ==
    {i \in 1..Len(list) : list[i].role_type \in {"director", "voice", "actor"}}
RoleRank(list, i) == Cardinality({j \in RolePlaces(list) : j <= i})

\* C17: for every list of celebrity entries, get_celebrities returns the
\* first 15 entries, in document order, whose role type is director, voice
\* or actor (all of them when they are fewer); an entry of another role
\* type is not returned and does not count towards the 15.
C17_CelebrityFilter ==
    fdone =>
       LET n == Cardinality(RolePlaces(fin))
           want == IF n > 15 THEN 15 ELSE n
       IN  /\ Len(fout) = want
           /\ \A i \in RolePlaces(fin) :
                 RoleRank(fin, i) <= want => fout[RoleRank(fin, i)] = fin[i]
           /\ \A k \in 1..Len(fout) :
                 fout[k].role_type \in {"director", "voice", "actor"}

\* get_celebrities has returned 15 entries of a page on which an entry of
\* another role type stands among the first 15 and more than 15 entries
\* have a kept role type.
C17_Witness ==
    /\ fdone
    /\ Len(fout) = 15
    /\ Cardinality(RolePlaces(fin)) > 15
    /\ \E i \in 1..15 : fin[i].role_type = "writer"

\* -------------------------------------------------- the name of a movie

\* The characters of the text of h1>span:first-child: "A" stands for a
\* letter or a digit, "D" and "J" for the two ideographs of a season suffix
\* (D, one word character, J), " " for white space and "(" for a character
\* that is neither a word character nor white space.
TitleChars == {"A", "D", "J", " ", "("}
Titles == UNION {[1..n -> TitleChars] : n \in 0..MaxTitle}

\* \w, and the class [\w：！，·] of which the titles
\* hold the word characters only.
IsWord(c) == c \in {"A", "D", "J"}
IsNameChar(c) == IsWord(c)

\* The season suffix D \w J stands at place k.
SeasonAt(t, k) ==
    /\ k >= 1
    /\ k + 2 <= Len(t)
    /\ t[k] = "D"
    /\ IsWord(t[k + 1])
    /\ t[k + 2] = "J"

\* The ends of the matches of .+D\wJ that start at place s: at least one
\* character stands before the suffix.
SeasonEnds(t, s) == {k + 2 : k \in {j \in (s + 1)..Len(t) : SeasonAt(t, j)}}

\* The end of the longest run of the class that starts at place s.
RunEnd(t, s) ==
    CHOOSE e \in s..Len(t) :
       /\ \A i \in s..e : IsNameChar(t[i])
       /\ e = Len(t) \/ ~IsNameChar(t[e + 1])

Greatest(S) == CHOOSE x \in S : \A y \in S : y <= x

\* The generic branch tried before the season branch.
Group1EndAlt(t, s) ==
    IF IsNameChar(t[s]) THEN RunEnd(t, s)
    ELSE IF SeasonEnds(t, s) # {} THEN Greatest(SeasonEnds(t, s))
    ELSE 0

\* The end of group 1 of a match that starts at place s, 0 when there is
\* none: the first branch of the alternation is tried first and its .+ is
\* greedy; the rest of the pattern, \s*(.*), matches whatever follows.
Group1End(t, s) ==
    IF SeasonEnds(t, s) # {} THEN Greatest(SeasonEnds(t, s))
    ELSE IF IsNameChar(t[s]) THEN RunEnd(t, s)
    ELSE 0

\* The first place from i on that holds no white space.
SkipSpaces(t, i) ==
    CHOOSE j \in i..(Len(t) + 1) :
       /\ \A n \in i..(j - 1) : t[n] = " "
       /\ j = Len(t) + 1 \/ t[j] # " "

\* re_name_math.captures(t): the leftmost match.
re_name_math(t) ==
    LET starts == {s \in 1..Len(t) : Group1End(t, s) # 0}
    IN  IF starts = {}
        THEN [some |-> FALSE, g1 |-> <<>>, g2 |-> <<>>]
        ELSE LET s == CHOOSE x \in starts : \A y \in starts : x <= y
                 e == Group1End(t, s)
             IN  [some |-> TRUE,
                  g1 |-> SubSeq(t, s, e),
                  g2 |-> SubSeq(t, SkipSpaces(t, e + 1), Len(t))]

\* name and original_name of get_movie_info: captures(..).unwrap() panics
\* when the pattern does not match.
NameSplit(name_str) ==
    LET cs == re_name_math(name_str)
    IN  IF ~cs.some
        THEN [tag |-> "panic", at |-> "api.rs:212",
              name |-> <<>>, original_name |-> <<>>]
        ELSE [tag |-> "ok", at |-> "",
              name |-> cs.g1, original_name |-> cs.g2]

InitNameSplit ==
    /\ MachineInit
    /\ fin \in Titles
    /\ fout = <<>>
    /\ fdone = FALSE

ApplyNameSplit ==
    /\ ~fdone
    /\ fout' = NameSplit(fin)
    /\ fdone' = TRUE
    /\ UNCHANGED <<fin, mvars>>

SpecNameSplit == InitNameSplit /\ [][ApplyNameSplit]_vars

\* The places of the season suffixes of a title, and of those that have at
\* least one character before them.
Suffixes(t) == {k \in 1..Len(t) : SeasonAt(t, k)}
InnerSuffixes(t) == Suffixes(t) \ {1}

\* The text after place e without its leading white space.
Remainder(t, e) == TrimStart(SubSeq(t, e + 1, Len(t)))

C19_NoMatchFallback ==
    (fdone /\ \A i \in 1..Len(fin) : ~IsNameChar(fin[i])) =>
       /\ fout.tag = "ok"
       /\ fout.name = fin
       /\ fout.original_name = <<>>

\* ------------------------------------------- the info block of a book page

\* The non-blank, trimmed lines of #info: "author" and "translator" stand
\* for the two labels that open a list and "publisher" for a label with its
\* value on the same line; a name, the separator "/", and a line with a
\* label the scan does not know.
BookInfoLines ==
    {<<"author", ":">>, <<"translator", ":">>, <<"A">>, <<"/">>,
     <<"publisher", ":", " ", "P">>, <<"x", ":", "y">>}
BookInfoArrays == UNION {[1..n -> BookInfoLines] : n \in 0..MaxInfo}

\* get_text: the second piece of s.split(':'), trimmed.
get_text(s) == Trim(Split(s, ":")[2])

\* s.starts_with("<label>:")
StartsWith(s, label) == Len(s) >= 2 /\ s[1] = label /\ s[2] = ":"

\* The scan before its first iteration: i = 0 and empty fields.  visits
\* is the history of the indices read.
ScanStart ==
    [pos |-> "loop", at |-> "", i |-> 0, visits |-> <<>>,
     author |-> <<>>, translators |-> <<>>, publisher |-> <<>>]

InitBookScan ==
    /\ MachineInit
    /\ fin \in BookInfoArrays
    /\ fout = ScanStart
    /\ fdone = FALSE

\* match info_array[i] with i past the end: the index panics.
ScanOutOfBounds ==
    /\ ~fdone
    /\ fout.pos = "loop"
    /\ fout.i >= Len(fin)
    /\ fout' = [fout EXCEPT !.pos = "panic", !.at = "bookapi.rs:215"]
    /\ fdone' = TRUE
    /\ UNCHANGED <<fin, mvars>>

\* An iteration on the author or the translator label: get_texts on the
\* lines after it, i += 1, continue.
ScanList ==
    /\ ~fdone
    /\ fout.pos = "loop"
    /\ fout.i < Len(fin)
    /\ LET line == fin[fout.i + 1]
           rest == SubSeq(fin, fout.i + 2, Len(fin))
       IN  /\ line \in {<<"author", ":">>, <<"translator", ":">>}
           /\ fout' = [fout EXCEPT
                         !.visits = Append(@, fout.i),
                         !.author = IF line = <<"author", ":">>
                                    THEN @ \o get_texts(rest) ELSE @,
                         !.translators = IF line = <<"translator", ":">>
                                         THEN @ \o get_texts(rest) ELSE @,
                         !.i = @ + 1]
    /\ UNCHANGED <<fin, fdone, mvars>>

\* An iteration on another line: the field of its label, if any, then
\* break at i == info_array.len() - 1, else i += 1.
ScanField ==
    /\ ~fdone
    /\ fout.pos = "loop"
    /\ fout.i < Len(fin)
    /\ LET line == fin[fout.i + 1]
           last == fout.i = Len(fin) - 1
       IN  /\ line \notin {<<"author", ":">>, <<"translator", ":">>}
           /\ fout' = [fout EXCEPT
                         !.visits = Append(@, fout.i),
                         !.publisher = IF StartsWith(line, "publisher")
                                       THEN get_text(line) ELSE @,
                         !.pos = IF last THEN "done" ELSE @,
                         !.i = IF last THEN @ ELSE @ + 1]
           /\ fdone' = last
    /\ UNCHANGED <<fin, mvars>>

NextBookScan == ScanOutOfBounds \/ ScanList \/ ScanField

SpecBookScan == InitBookScan /\ [][NextBookScan]_vars

\* C22: for every sequence of non-blank info lines, the empty one and those
\* that end with the author or the translator label included, the scan
\* reads no index outside the sequence, reads no index twice, and when it
\* has ended it has read every index, the last one last.
C22_ScanWithinBounds ==
    /\ fout.pos # "panic"
    /\ \A m, n \in 1..Len(fout.visits) :
          m # n => fout.visits[m] # fout.visits[n]
    /\ \A m \in 1..Len(fout.visits) : fout.visits[m] \in 0..(Len(fin) - 1)
    /\ fdone => fout.visits = [m \in 1..Len(fin) |-> m - 1]

====
